---- MODULE Spec2Model ----
(***************************************************************************)
(* Model of client/ed2/stream2zmq.py (libstored):                          *)
(*   - InfiniteStdoutBuffer: write / flush / close / __del__ / _worker,    *)
(*     as threads interleaved at each access to shared state;              *)
(*   - Stream2Zmq.poll: the idle-timeout policy in front of zmq.poll;      *)
(*   - Stream2Zmq.recvAll: the drain loop and its except clause;           *)
(*   - setInfiniteStdout / resetStdout and Stream2Zmq's __init__, reset,   *)
(*     zmq property, stdout and close, as steps of the primary thread.     *)
(* Each part has its own specifications (SpecBuf, SpecClose, SpecRace,     *)
(* SpecLive, SpecFlush for the buffer, SpecPoll, SpecRecv, SpecSys); the   *)
(* variables of the other parts stay at their initial values.              *)
(***************************************************************************)
EXTENDS Integers, Sequences, FiniteSets

\* ------------------------------------------------------------------ bounds
MaxChunks == 2      \* write() calls made on the buffer (chunks 1..MaxChunks)
NumClosers == 2     \* close() calls made on the buffer (explicit or __del__)
MaxCloseChunks == 1 \* write() calls made in SpecClose (at most MaxChunks)
MaxTime == 4        \* the clock (time.time()) runs from 0 to MaxTime
MaxCfgTimeout == 2  \* the configured timeout (_timeout_s) is in 0..MaxCfgTimeout
MaxArg == 3         \* a timeout_s argument given to poll() is in 0..MaxArg
MaxTimeouts == 2    \* poll() is called while fewer timeout() calls were made
MaxReady == 1       \* zmq.poll() returns a number of ready sockets in 0..MaxReady
MaxFrames == 4      \* frames one recvAll() call receives
NumFrameValues == 2 \* distinct frame contents (1..NumFrameValues)
NumSinks == 2       \* real sinks sys.stdout may start as (1 is sys.__stdout__)
MaxBuffers == 2     \* InfiniteStdoutBuffer objects created by setInfiniteStdout()
MaxChains == 3      \* chains built by buildStack(): constructions and reset() calls
MaxEndpointCloses == 2 \* close() calls made on one chain's endpoint

\* The '' that close() enqueues to wake the worker (chunks are 1..MaxChunks).
Sentinel == 0

Chunks == 1..MaxChunks
Closers == 1..NumClosers

VARIABLES
  \* ---- InfiniteStdoutBuffer
  closed,      \* self._closed
  cleanup,     \* whether a cleanup callback was supplied (self._cleanup != None)
  queue,       \* the items of self._queue (queue.Queue), oldest first
  unfinished,  \* self._queue.unfinished_tasks: put() adds 1, task_done() takes 1
  queueNone,   \* self._queue is None (close() line 59)
  wpc,         \* the worker thread's position in _worker
  witem,       \* the item the worker took with get()
  wst,         \* wst[c]: position of the write(c) call
  cpc,         \* cpc[k]: position of the k-th close() call
  sink,        \* what self.stdout.write() received, in the order of the calls
  flushes,     \* number of self.stdout.flush() calls
  cleanups,    \* number of self._cleanup() calls
  \* ---- history of the buffer's calls (read by the properties only)
  handed,      \* chunks in the order write() handed them over (put, or direct write)
  pre,         \* pre[k]: chunks whose write() had returned when close() k was called
  late,        \* late[k]: close() k was called after a close() had returned
  \* ---- a caller's flush()
  fpc,         \* position of the flush() call
  fpre,        \* chunks whose write() had returned when flush() was called
  \* ---- sys.stdout and the buffers setInfiniteStdout() creates
  sysStdout,   \* sys.stdout: <<"sink", s>> or <<"buf", b>>
  bufWraps,    \* bufWraps[b]: None until buffer b is created, then Some(its self.stdout)
  bufClosed,   \* bufClosed[b]: self._closed of buffer b
  nbuf,        \* buffers created so far, each with its worker thread
  orig,        \* sys.stdout before the first setInfiniteStdout() (never changed)
  skips,       \* some setInfiniteStdout() returned at line 79
  \* ---- Stream2Zmq: the chain and the cached endpoint
  chain,       \* number of the chain in self._stack (0 before construction)
  fdout,       \* fdout of the TerminalLayer of that chain
  zmqCache,    \* self._zmq: None, or Some(n) for the first layer of chain n
  epCloses,    \* epCloses[n]: close() calls made on the endpoint of chain n
  lastOut,     \* where the last terminal text went: "none", "queued" or "direct"
  lastOp,      \* the last operation made on the orchestrator or on sys.stdout
  deleg,       \* the chain whose endpoint the last delegated call acted on
  closedAfter, \* a buffer was closed after the last construction
  \* ---- Stream2Zmq.poll
  cfgTimeout,  \* self._timeout_s
  now,         \* time.time()
  lastAct,     \* self.zmq.lastActivity()
  waiting,     \* self.zmq.isWaiting()
  ppc,         \* "idle", or "zmq.poll" while poll() is inside self.zmq.poll()
  pev,         \* the calls the current (or last) poll() made, in order
  pwait,       \* the timeout that poll() handed to self.zmq.poll()
  timeouts,    \* number of self.timeout() calls so far
  zres,        \* what the last self.zmq.poll() returned (None before the first)
  pret,        \* what the last poll() returned (None before the first)
  \* ---- history of the poll() calls (read by the properties only)
  parg,        \* the timeout_s argument of the current (or last) poll()
  pwaiting,    \* what isWaiting() returned to it
  pidle,       \* time.time() - lastActivity() as it computed remaining
  quiet,       \* every poll() so far saw isWaiting() false or an idle time below _timeout_s
  \* ---- Stream2Zmq.recvAll
  rpc,         \* "recv", "handler", "returned" or "raised"
  rframes,     \* the frames socket.recv() returned, in order
  handled,     \* the frames f was called with, in order
  rlast,       \* the last exception raised inside the try block
  rsrc         \* who raised it: "none", "recv" or "handler"

bufVars == <<closed, cleanup, queue, unfinished, queueNone, wpc, witem, wst, cpc,
             sink, flushes, cleanups, handed, pre, late>>

pollVars == <<cfgTimeout, now, lastAct, waiting, ppc, pev, pwait, timeouts,
              zres, pret, parg, pwaiting, pidle, quiet>>

recvVars == <<rpc, rframes, handled, rlast, rsrc>>

flushVars == <<fpc, fpre>>

instVars == <<sysStdout, bufWraps, bufClosed, nbuf, orig, skips>>

orchVars == <<chain, fdout, zmqCache, epCloses, lastOut, lastOp, deleg, closedAfter>>

notBuf == <<pollVars, recvVars, flushVars, instVars, orchVars>>
notPoll == <<bufVars, recvVars, flushVars, instVars, orchVars>>
notRecv == <<bufVars, pollVars, flushVars, instVars, orchVars>>
notFlush == <<pollVars, recvVars, instVars, orchVars>>
notSys == <<bufVars, pollVars, recvVars, flushVars>>

vars == <<bufVars, pollVars, recvVars, flushVars, instVars, orchVars>>

\* ------------------------------------------------------------------ helpers
IsPrefix(s, t) == Len(s) <= Len(t) /\ SubSeq(t, 1, Len(s)) = s

Count(s, x) == Cardinality({i \in 1..Len(s) : s[i] = x})

\* queue.Queue.put(item): append, one more unfinished task.
QueuePut(q, item) == Append(q, item)

\* A close() call is in progress: called, and neither returned nor raised.
CloseActive(k) == cpc[k] \notin {"idle", "skipped", "done", "error"}

\* A close() call has returned: at line 52 ("skipped") or at the end ("done").
CloseReturned(k) == cpc[k] \in {"skipped", "done"}

\* Python's None, and a value that is not None.
None == <<>>
Some(x) == <<x>>

Min(a, b) == IF a <= b THEN a ELSE b

\* ------------------------------------------------------------------ __init__
\* InfiniteStdoutBuffer.__init__: the worker thread is started.
BufStart(cb) ==
  /\ closed = FALSE
  /\ cleanup = cb
  /\ queue = <<>>
  /\ unfinished = 0
  /\ queueNone = FALSE
  /\ wpc = "loop"
  /\ witem = Sentinel
  /\ wst = [c \in Chunks |-> "new"]
  /\ cpc = [k \in Closers |-> "idle"]
  /\ sink = <<>>
  /\ flushes = 0
  /\ cleanups = 0
  /\ handed = <<>>
  /\ pre = [k \in Closers |-> {}]
  /\ late = [k \in Closers |-> FALSE]
  /\ fpc = "idle"
  /\ fpre = {}

\* ------------------------------------------------------------------ _worker
\* WorkerLoop with the test inverted: while self._closed.
WorkerLoop_Inverted ==
  /\ wpc = "loop"
  /\ wpc' = IF closed THEN "get" ELSE "done"
  /\ UNCHANGED <<notBuf, closed, cleanup, queue, unfinished, queueNone, witem, wst, cpc,
                 sink, flushes, cleanups, handed, pre, late>>

\* while not self._closed:
WorkerLoop ==
  /\ wpc = "loop"
  /\ wpc' = IF closed THEN "done" ELSE "get"
  /\ UNCHANGED <<notBuf, closed, cleanup, queue, unfinished, queueNone, witem, wst, cpc,
                 sink, flushes, cleanups, handed, pre, late>>

\* self._queue.get() returns the oldest item (blocks while the queue is empty);
\* self._write(item) calls self.stdout.write(item).
WorkerGet ==
  /\ wpc = "get"
  /\ queue # <<>>
  /\ witem' = Head(queue)
  /\ queue' = Tail(queue)
  /\ sink' = Append(sink, Head(queue))
  /\ wpc' = "write"
  /\ UNCHANGED <<notBuf, closed, cleanup, unfinished, queueNone, wst, cpc,
                 flushes, cleanups, handed, pre, late>>

\* self.stdout.write(item) returns.
WorkerWriteReturn ==
  /\ wpc = "write"
  /\ wpc' = "task_done"
  /\ UNCHANGED <<notBuf, closed, cleanup, queue, unfinished, queueNone, witem, wst, cpc,
                 sink, flushes, cleanups, handed, pre, late>>

\* self._queue.task_done()
WorkerTaskDone ==
  /\ wpc = "task_done"
  /\ unfinished' = unfinished - 1
  /\ wpc' = "loop"
  /\ UNCHANGED <<notBuf, closed, cleanup, queue, queueNone, witem, wst, cpc,
                 sink, flushes, cleanups, handed, pre, late>>

\* ------------------------------------------------------------------ write
\* write(c) is called and tests self._closed. Calls are numbered in the order
\* they are made; any number of them may be in progress at once.
WriteCall(c) ==
  /\ wst[c] = "new"
  /\ c > 1 => wst[c - 1] # "new"
  /\ wst' = [wst EXCEPT ![c] = IF closed THEN "direct" ELSE "put"]
  /\ UNCHANGED <<notBuf, closed, cleanup, queue, unfinished, queueNone, wpc, witem, cpc,
                 sink, flushes, cleanups, handed, pre, late>>

\* self._queue.put(data); raises AttributeError when self._queue is None.
WritePut(c) ==
  /\ wst[c] = "put"
  /\ IF queueNone
       THEN /\ wst' = [wst EXCEPT ![c] = "error"]
            /\ UNCHANGED <<queue, unfinished, handed>>
       ELSE /\ queue' = QueuePut(queue, c)
            /\ unfinished' = unfinished + 1
            /\ handed' = Append(handed, c)
            /\ wst' = [wst EXCEPT ![c] = "returned"]
  /\ UNCHANGED <<notBuf, closed, cleanup, queueNone, wpc, witem, cpc,
                 sink, flushes, cleanups, pre, late>>

\* self._write(data): the caller itself calls self.stdout.write(data).
WriteDirect(c) ==
  /\ wst[c] = "direct"
  /\ sink' = Append(sink, c)
  /\ handed' = Append(handed, c)
  /\ wst' = [wst EXCEPT ![c] = "dwrite"]
  /\ UNCHANGED <<notBuf, closed, cleanup, queue, unfinished, queueNone, wpc, witem, cpc,
                 flushes, cleanups, pre, late>>

\* self.stdout.write(data) returns, and so does write().
WriteDirectReturn(c) ==
  /\ wst[c] = "dwrite"
  /\ wst' = [wst EXCEPT ![c] = "returned"]
  /\ UNCHANGED <<notBuf, closed, cleanup, queue, unfinished, queueNone, wpc, witem, cpc,
                 sink, flushes, cleanups, handed, pre, late>>

\* ------------------------------------------------------------------ close
\* CloseCall without the test of self._closed (lines 51-52 left out).
CloseCall_NoGuard(k) ==
  /\ cpc[k] = "idle"
  /\ k > 1 => cpc[k - 1] # "idle"
  /\ cpc' = [cpc EXCEPT ![k] = "flush"]
  /\ pre' = [pre EXCEPT ![k] = {c \in Chunks : wst[c] = "returned"}]
  /\ late' = [late EXCEPT ![k] = \E j \in Closers : CloseReturned(j)]
  /\ UNCHANGED <<notBuf, closed, cleanup, queue, unfinished, queueNone, wpc, witem, wst,
                 sink, flushes, cleanups, handed>>

\* close() (or __del__, which only calls close()) is called and tests
\* self._closed: "skipped" is the return of line 52.
CloseCall(k) ==
  /\ cpc[k] = "idle"
  /\ k > 1 => cpc[k - 1] # "idle"
  /\ cpc' = [cpc EXCEPT ![k] = IF closed THEN "skipped" ELSE "flush"]
  /\ pre' = [pre EXCEPT ![k] = {c \in Chunks : wst[c] = "returned"}]
  /\ late' = [late EXCEPT ![k] = \E j \in Closers : CloseReturned(j)]
  /\ UNCHANGED <<notBuf, closed, cleanup, queue, unfinished, queueNone, wpc, witem, wst,
                 sink, flushes, cleanups, handed>>

\* self.flush(): self._queue.join() is entered; AttributeError on None.
CloseFlush(k) ==
  /\ cpc[k] = "flush"
  /\ cpc' = [cpc EXCEPT ![k] = IF queueNone THEN "error" ELSE "joinq"]
  /\ UNCHANGED <<notBuf, closed, cleanup, queue, unfinished, queueNone, wpc, witem, wst,
                 sink, flushes, cleanups, handed, pre, late>>

\* CloseQueueJoined with a flush() that does not wait for the queue.
CloseQueueJoined_NoWait(k) ==
  /\ cpc[k] = "joinq"
  /\ cpc' = [cpc EXCEPT ![k] = "setclosed"]
  /\ UNCHANGED <<notBuf, closed, cleanup, queue, unfinished, queueNone, wpc, witem, wst,
                 sink, flushes, cleanups, handed, pre, late>>

\* Queue.join() returns once unfinished_tasks is 0.
CloseQueueJoined(k) ==
  /\ cpc[k] = "joinq"
  /\ unfinished = 0
  /\ cpc' = [cpc EXCEPT ![k] = "setclosed"]
  /\ UNCHANGED <<notBuf, closed, cleanup, queue, unfinished, queueNone, wpc, witem, wst,
                 sink, flushes, cleanups, handed, pre, late>>

\* self._closed = True
CloseSetClosed(k) ==
  /\ cpc[k] = "setclosed"
  /\ closed' = TRUE
  /\ cpc' = [cpc EXCEPT ![k] = "put"]
  /\ UNCHANGED <<notBuf, cleanup, queue, unfinished, queueNone, wpc, witem, wst,
                 sink, flushes, cleanups, handed, pre, late>>

\* ClosePut without the wakeup: nothing is enqueued after the flag is set.
ClosePut_NoWakeup(k) ==
  /\ cpc[k] = "put"
  /\ cpc' = [cpc EXCEPT ![k] = IF queueNone THEN "error" ELSE "join"]
  /\ UNCHANGED <<notBuf, closed, cleanup, queue, unfinished, queueNone, wpc, witem, wst,
                 sink, flushes, cleanups, handed, pre, late>>

\* self._queue.put(''); AttributeError on None.
ClosePut(k) ==
  /\ cpc[k] = "put"
  /\ IF queueNone
       THEN /\ cpc' = [cpc EXCEPT ![k] = "error"]
            /\ UNCHANGED <<queue, unfinished>>
       ELSE /\ queue' = QueuePut(queue, Sentinel)
            /\ unfinished' = unfinished + 1
            /\ cpc' = [cpc EXCEPT ![k] = "join"]
  /\ UNCHANGED <<notBuf, closed, cleanup, queueNone, wpc, witem, wst,
                 sink, flushes, cleanups, handed, pre, late>>

\* self._thread.join() returns once the worker has left _worker.
CloseJoin(k) ==
  /\ cpc[k] = "join"
  /\ wpc = "done"
  /\ cpc' = [cpc EXCEPT ![k] = "setnone"]
  /\ UNCHANGED <<notBuf, closed, cleanup, queue, unfinished, queueNone, wpc, witem, wst,
                 sink, flushes, cleanups, handed, pre, late>>

\* self._queue = None
CloseSetNone(k) ==
  /\ cpc[k] = "setnone"
  /\ queueNone' = TRUE
  /\ cpc' = [cpc EXCEPT ![k] = "sflush"]
  /\ UNCHANGED <<notBuf, closed, cleanup, queue, unfinished, wpc, witem, wst,
                 sink, flushes, cleanups, handed, pre, late>>

\* self.stdout.flush()
CloseSinkFlush(k) ==
  /\ cpc[k] = "sflush"
  /\ flushes' = flushes + 1
  /\ cpc' = [cpc EXCEPT ![k] = "cleanup"]
  /\ UNCHANGED <<notBuf, closed, cleanup, queue, unfinished, queueNone, wpc, witem, wst,
                 sink, cleanups, handed, pre, late>>

\* if self._cleanup != None: self._cleanup()   -- then close() returns.
CloseCleanup(k) ==
  /\ cpc[k] = "cleanup"
  /\ cleanups' = IF cleanup THEN cleanups + 1 ELSE cleanups
  /\ cpc' = [cpc EXCEPT ![k] = "done"]
  /\ UNCHANGED <<notBuf, closed, cleanup, queue, unfinished, queueNone, wpc, witem, wst,
                 sink, flushes, handed, pre, late>>

\* ------------------------------------------------------------------ flush
\* A caller calls flush(): self._queue.join() is entered; AttributeError on
\* None.
FlushCall ==
  /\ fpc = "idle"
  /\ fpc' = IF queueNone THEN "error" ELSE "joinq"
  /\ fpre' = {c \in Chunks : wst[c] = "returned"}
  /\ UNCHANGED <<notFlush, bufVars>>

\* FlushJoined with a join() that waits for the queue to be empty only.
FlushJoined_QueueEmpty ==
  /\ fpc = "joinq"
  /\ queue = <<>>
  /\ fpc' = "returned"
  /\ UNCHANGED <<notFlush, bufVars, fpre>>

\* Queue.join() returns once unfinished_tasks is 0, and so does flush().
FlushJoined ==
  /\ fpc = "joinq"
  /\ unfinished = 0
  /\ fpc' = "returned"
  /\ UNCHANGED <<notFlush, bufVars, fpre>>

Flush == FlushCall \/ FlushJoined

Worker == WorkerLoop \/ WorkerGet \/ WorkerWriteReturn \/ WorkerTaskDone

Write(c) == WriteCall(c) \/ WritePut(c) \/ WriteDirect(c) \/ WriteDirectReturn(c)

Close(k) ==
  \/ CloseCall(k) \/ CloseFlush(k) \/ CloseQueueJoined(k) \/ CloseSetClosed(k)
  \/ ClosePut(k) \/ CloseJoin(k) \/ CloseSetNone(k) \/ CloseSinkFlush(k)
  \/ CloseCleanup(k)

\* ------------------------------------------------------------------ poll
TimeoutArgs == {None} \cup {Some(t) : t \in 0..MaxArg}

\* Stream2Zmq.__init__ stores timeout_s; the transport starts at time 0.
PollStart(cfg) ==
  /\ cfgTimeout = cfg
  /\ now = 0
  /\ lastAct = 0
  /\ waiting = FALSE
  /\ ppc = "idle"
  /\ pev = <<>>
  /\ pwait = None
  /\ timeouts = 0
  /\ zres = None
  /\ pret = None
  /\ parg = None
  /\ pwaiting = FALSE
  /\ pidle = 0
  /\ quiet = TRUE

\* remaining = self.zmq.lastActivity() + self._timeout_s - time.time()
Remaining(la, cfg, t) == la + cfg - t

\* PollFires with remaining < 0 in place of remaining <= 0.
PollFires_Strict(w, la, cfg, t) == w /\ Remaining(la, cfg, t) < 0

\* PollFires without the test of isWaiting().
PollFires_NoWaitingTest(w, la, cfg, t) == Remaining(la, cfg, t) <= 0

\* poll() calls self.timeout(): isWaiting() and remaining <= 0.
PollFires(w, la, cfg, t) == w /\ Remaining(la, cfg, t) <= 0

\* PollWait with the default filled in before the test of isWaiting().
PollWait_Defaulting(arg, w, la, cfg, t) ==
  LET given == IF arg = None THEN cfg ELSE arg[1]
  IN  IF w /\ Remaining(la, cfg, t) > 0
        THEN Some(Min(given, Remaining(la, cfg, t)))
        ELSE Some(given)

\* The timeout_s that poll() hands to self.zmq.poll().
PollWait(arg, w, la, cfg, t) ==
  IF w
    THEN LET given == IF arg = None THEN cfg ELSE arg[1]
         IN  IF Remaining(la, cfg, t) <= 0
               THEN Some(given)
               ELSE Some(Min(given, Remaining(la, cfg, t)))
    ELSE arg

\* poll(arg) up to its call of self.zmq.poll(timeout_s).
PollCall(arg) ==
  /\ ppc = "idle"
  /\ timeouts < MaxTimeouts
  /\ parg' = arg
  /\ pwaiting' = waiting
  /\ pidle' = now - lastAct
  /\ quiet' = (quiet /\ (~waiting \/ now - lastAct < cfgTimeout))
  /\ IF PollFires(waiting, lastAct, cfgTimeout, now)
       THEN /\ timeouts' = timeouts + 1
            /\ pev' = <<"timeout", "zmq.poll">>
       ELSE /\ timeouts' = timeouts
            /\ pev' = <<"zmq.poll">>
  /\ pwait' = PollWait(arg, waiting, lastAct, cfgTimeout, now)
  /\ ppc' = "zmq.poll"
  /\ UNCHANGED <<notPoll, cfgTimeout, now, lastAct, waiting, zres, pret>>

\* PollResult with the return statement left out: poll() returns None.
PollResult_Dropped(r) == None

\* return self.zmq.poll(timeout_s): what poll() returns when zmq.poll()
\* returned r.
PollResult(r) == Some(r)

\* self.zmq.poll(timeout_s) returns r after d time units, d within the
\* timeout it was given; the transport may have received something
\* meanwhile. poll() returns.
PollReturn(d, active, w, r) ==
  /\ ppc = "zmq.poll"
  /\ now + d <= MaxTime
  /\ pwait # None => d <= pwait[1]
  /\ now' = now + d
  /\ lastAct' = IF active THEN now + d ELSE lastAct
  /\ waiting' = IF active THEN w ELSE waiting
  /\ zres' = Some(r)
  /\ pret' = PollResult(r)
  /\ ppc' = "idle"
  /\ UNCHANGED <<notPoll, cfgTimeout, pev, pwait, timeouts, parg, pwaiting, pidle, quiet>>

\* Between two poll() calls the transport receives something (its last
\* activity is now) or its exchange ends or starts (isWaiting() changes).
TransportEvent(active, w) ==
  /\ ppc = "idle"
  /\ lastAct' = IF active THEN now ELSE lastAct
  /\ waiting' = w
  /\ UNCHANGED <<notPoll, cfgTimeout, now, ppc, pev, pwait, timeouts, zres, pret,
                 parg, pwaiting, pidle, quiet>>

\* Time passes between two poll() calls.
Tick ==
  /\ ppc = "idle"
  /\ now < MaxTime
  /\ now' = now + 1
  /\ UNCHANGED <<notPoll, cfgTimeout, lastAct, waiting, ppc, pev, pwait, timeouts,
                 zres, pret, parg, pwaiting, pidle, quiet>>

\* ------------------------------------------------------------------ recvAll
FrameValues == 1..NumFrameValues

\* What recv() or f may raise: zmq.ZMQError with an errno, or something else.
WouldBlock == <<"ZMQError", "EAGAIN">>
Exceptions == {WouldBlock, <<"ZMQError", "ETERM">>, <<"Exception", "">>}
NoException == <<"", "">>

\* recvAll(socket, f) is called.
RecvStart ==
  /\ rpc = "recv"
  /\ rframes = <<>>
  /\ handled = <<>>
  /\ rlast = NoException
  /\ rsrc = "none"

\* ExceptClause without the test of e.errno: every ZMQError is swallowed.
ExceptClause_SwallowAll(e) == IF e[1] = "ZMQError" THEN "returned" ELSE "raised"

\* except zmq.ZMQError as e: pass if e.errno == zmq.EAGAIN, else raise.
\* An exception of another type is not caught.
ExceptClause(e) ==
  IF e[1] = "ZMQError"
    THEN IF e[2] = "EAGAIN" THEN "returned" ELSE "raised"
    ELSE "raised"

\* socket.recv(flags=zmq.NOBLOCK) returns a frame.
RecvFrame(fr) ==
  /\ rpc = "recv"
  /\ Len(rframes) < MaxFrames
  /\ rframes' = Append(rframes, fr)
  /\ rpc' = "handler"
  /\ UNCHANGED <<notRecv, handled, rlast, rsrc>>

\* socket.recv(flags=zmq.NOBLOCK) raises e.
RecvRaises(e) ==
  /\ rpc = "recv"
  /\ rlast' = e
  /\ rsrc' = "recv"
  /\ rpc' = ExceptClause(e)
  /\ UNCHANGED <<notRecv, rframes, handled>>

\* f(frame) returns.
HandlerReturns ==
  /\ rpc = "handler"
  /\ handled' = Append(handled, rframes[Len(rframes)])
  /\ rpc' = "recv"
  /\ UNCHANGED <<notRecv, rframes, rlast, rsrc>>

\* f(frame) raises e.
HandlerRaises(e) ==
  /\ rpc = "handler"
  /\ handled' = Append(handled, rframes[Len(rframes)])
  /\ rlast' = e
  /\ rsrc' = "handler"
  /\ rpc' = ExceptClause(e)
  /\ UNCHANGED <<notRecv, rframes>>

\* ------------------------------------------------------------------ sys.stdout
\* The primary thread's operations on sys.stdout, on the buffers and on one
\* Stream2Zmq object, each as one step (the thread makes them one at a time).
Sinks == 1..NumSinks
Buffers == 1..MaxBuffers
Chains == 1..MaxChains

SinkRef(x) == <<"sink", x>>
BufRef(b) == <<"buf", b>>

\* isinstance(ref, InfiniteStdoutBuffer)
IsBuffer(ref) == ref[1] = "buf"

\* The process starts with a real sink as sys.stdout and no Stream2Zmq.
SysStart(x) ==
  /\ sysStdout = SinkRef(x)
  /\ bufWraps = [b \in Buffers |-> None]
  /\ bufClosed = [b \in Buffers |-> FALSE]
  /\ nbuf = 0
  /\ orig = SinkRef(x)
  /\ skips = FALSE
  /\ chain = 0
  /\ fdout = "default"
  /\ zmqCache = None
  /\ epCloses = [n \in Chains |-> 0]
  /\ lastOut = "none"
  /\ lastOp = "start"
  /\ deleg = 0
  /\ closedAfter = FALSE

\* InstallStep without the isinstance test of line 78.
InstallStep_NoTest ==
  /\ nbuf < MaxBuffers
  /\ nbuf' = nbuf + 1
  /\ bufWraps' = [bufWraps EXCEPT ![nbuf + 1] = Some(sysStdout)]
  /\ sysStdout' = BufRef(nbuf + 1)
  /\ skips' = skips
  /\ UNCHANGED <<bufClosed, orig>>

\* setInfiniteStdout(): nothing when sys.stdout is a buffer already; else a
\* new buffer (and worker) around the current sys.stdout becomes sys.stdout,
\* with cleanup = lambda: resetStdout(old_stdout).
InstallStep ==
  IF IsBuffer(sysStdout)
    THEN /\ skips' = TRUE
         /\ UNCHANGED <<sysStdout, bufWraps, bufClosed, nbuf, orig>>
    ELSE /\ nbuf < MaxBuffers
         /\ nbuf' = nbuf + 1
         /\ bufWraps' = [bufWraps EXCEPT ![nbuf + 1] = Some(sysStdout)]
         /\ sysStdout' = BufRef(nbuf + 1)
         /\ skips' = skips
         /\ UNCHANGED <<bufClosed, orig>>

\* ResetStep without the loop of lines 100-102: fdout is left as built.
ResetStep_NoFdout ==
  /\ chain < MaxChains
  /\ chain' = chain + 1
  /\ fdout' = "default"
  /\ zmqCache' = None

\* ResetStep without line 104: the cached endpoint is kept.
ResetStep_KeepCache ==
  /\ chain < MaxChains
  /\ chain' = chain + 1
  /\ fdout' = "self.stdout"
  /\ zmqCache' = zmqCache

\* reset(): a new chain is built, the fdout of its TerminalLayer is set to
\* self.stdout, the chain is wrapped and the cached endpoint is dropped.
ResetStep ==
  /\ chain < MaxChains
  /\ chain' = chain + 1
  /\ fdout' = "self.stdout"
  /\ zmqCache' = None

\* setInfiniteStdout() called on its own.
SetInfiniteStdout ==
  /\ InstallStep
  /\ lastOp' = "setInfiniteStdout"
  /\ UNCHANGED <<notSys, chain, fdout, zmqCache, epCloses, lastOut, deleg, closedAfter>>

\* Stream2Zmq.__init__: setInfiniteStdout(), then reset(). A Stream2Zmq
\* constructed later takes the place of the one before.
Construct ==
  /\ InstallStep
  /\ ResetStep
  /\ closedAfter' = FALSE
  /\ lastOp' = "construct"
  /\ UNCHANGED <<notSys, epCloses, lastOut, deleg>>

\* Stream2Zmq.reset()
Reset ==
  /\ chain > 0
  /\ ResetStep
  /\ lastOp' = "reset"
  /\ UNCHANGED <<notSys, instVars, epCloses, lastOut, deleg, closedAfter>>

\* The zmq property: the cached endpoint, or the first layer of the current
\* chain, which is then cached.
ZmqProperty(cache, n) == IF cache = None THEN Some(n) ELSE cache

\* isWaiting(), poll() or registerStream(): delegated to self.zmq.
Access ==
  /\ chain > 0
  /\ zmqCache' = ZmqProperty(zmqCache, chain)
  /\ deleg' = ZmqProperty(zmqCache, chain)[1]
  /\ lastOp' = "access"
  /\ UNCHANGED <<notSys, instVars, chain, fdout, epCloses, lastOut, closedAfter>>

\* Stream2Zmq.close(): self.zmq.close().
OrchClose ==
  /\ chain > 0
  /\ LET e == ZmqProperty(zmqCache, chain)[1]
     IN  /\ epCloses[e] < MaxEndpointCloses
         /\ epCloses' = [epCloses EXCEPT ![e] = @ + 1]
         /\ deleg' = e
  /\ zmqCache' = ZmqProperty(zmqCache, chain)
  /\ lastOp' = "close"
  /\ UNCHANGED <<notSys, instVars, chain, fdout, lastOut, closedAfter>>

\* resetStdout(old_stdout) with sys.__stdout__ in place of old_stdout.
ResetStdout_Default(old) == SinkRef(1)

\* resetStdout(old_stdout): what sys.stdout becomes.
ResetStdout(old) == old

\* close() of buffer b, from start to return: nothing when it is closed;
\* else the flag is set and the cleanup callback restores sys.stdout.
BufferClose(b) ==
  /\ bufWraps[b] # None
  /\ IF bufClosed[b]
       THEN UNCHANGED <<sysStdout, bufClosed, closedAfter>>
       ELSE /\ bufClosed' = [bufClosed EXCEPT ![b] = TRUE]
            /\ sysStdout' = ResetStdout(bufWraps[b][1])
            /\ closedAfter' = TRUE
  /\ lastOp' = "buffer.close"
  /\ UNCHANGED <<notSys, bufWraps, nbuf, orig, skips,
                 chain, fdout, zmqCache, epCloses, lastOut, deleg>>

\* Where a text goes that the TerminalLayer hands to fdout f while sys.stdout
\* is ref: self.stdout calls sys.stdout.write(), which enqueues on an open
\* buffer and writes to the sink itself otherwise.
TextPath(f, ref, cl) ==
  IF f = "self.stdout" /\ IsBuffer(ref) /\ ~cl[ref[2]]
    THEN "queued"
    ELSE "direct"

\* decode() reaches the TerminalLayer, which calls its fdout with a text.
Deliver ==
  /\ chain > 0
  /\ lastOut' = TextPath(fdout, sysStdout, bufClosed)
  /\ lastOp' = "decode"
  /\ UNCHANGED <<notSys, instVars, chain, fdout, zmqCache, epCloses, deleg, closedAfter>>

\* ------------------------------------------------------------------ specifications
\* The output buffer: the worker, write() calls and close() calls, interleaved.
InitBuf == (\E cb \in BOOLEAN : BufStart(cb)) /\ PollStart(1) /\ RecvStart /\ SysStart(1)

NextBuf ==
  \/ Worker
  \/ \E c \in Chunks : Write(c)
  \/ \E k \in Closers : Close(k)

SpecBuf == InitBuf /\ [][NextBuf]_vars

\* The same with fewer write() calls, for the properties of close().
NextClose ==
  \/ Worker
  \/ \E c \in 1..MaxCloseChunks : Write(c)
  \/ \E k \in Closers : Close(k)

SpecClose == InitBuf /\ [][NextClose]_vars

\* SpecBuf with every write() called while a close() is in progress.
RaceWriteCall(c) == (\E k \in Closers : CloseActive(k)) /\ WriteCall(c)

NextRace ==
  \/ Worker
  \/ \E c \in Chunks :
       RaceWriteCall(c) \/ WritePut(c) \/ WriteDirect(c) \/ WriteDirectReturn(c)
  \/ \E k \in Closers : Close(k)

SpecRace == InitBuf /\ [][NextRace]_vars

\* SpecClose under fair scheduling: as long as some thread can take a step
\* (the worker; a close() that was called; a write() that was called), one
\* of them does, and stdout.write() always returns. No thread takes steps
\* forever on its own, so every thread that can take a step takes it in the
\* end. Whether and when close() and write() are called is left open.
CloseRuns(k) == cpc[k] # "idle" /\ Close(k)

WriteRuns(c) == wst[c] # "new" /\ Write(c)

ThreadRuns ==
  \/ Worker
  \/ \E k \in Closers : CloseRuns(k)
  \/ \E c \in 1..MaxCloseChunks : WriteRuns(c)

SpecLive == InitBuf /\ [][NextClose]_vars /\ WF_vars(ThreadRuns)

\* One flush() call of a caller, with write() calls, the worker and one
\* close() call, under fair scheduling of the running threads.
NextFlush ==
  \/ Worker
  \/ \E c \in Chunks : Write(c)
  \/ Flush
  \/ Close(1)

FlushThreadRuns ==
  \/ Worker
  \/ \E c \in Chunks : WriteRuns(c)
  \/ FlushJoined
  \/ CloseRuns(1)

SpecFlush == InitBuf /\ [][NextFlush]_vars /\ WF_vars(FlushThreadRuns)

\* poll() calls of one orchestrator, with time passing.
InitPoll ==
  /\ BufStart(FALSE)
  /\ \E cfg \in 0..MaxCfgTimeout : PollStart(cfg)
  /\ RecvStart
  /\ SysStart(1)

NextPoll ==
  \/ \E arg \in TimeoutArgs : PollCall(arg)
  \/ \E d \in 0..MaxTime, active \in BOOLEAN, w \in BOOLEAN, r \in 0..MaxReady :
       PollReturn(d, active, w, r)
  \/ \E active \in BOOLEAN, w \in BOOLEAN : TransportEvent(active, w)
  \/ Tick

SpecPoll == InitPoll /\ [][NextPoll]_vars

\* One recvAll() call.
InitRecv == BufStart(FALSE) /\ PollStart(1) /\ RecvStart /\ SysStart(1)

NextRecv ==
  \/ \E fr \in FrameValues : RecvFrame(fr)
  \/ \E e \in Exceptions : RecvRaises(e)
  \/ HandlerReturns
  \/ \E e \in Exceptions : HandlerRaises(e)

SpecRecv == InitRecv /\ [][NextRecv]_vars

\* sys.stdout, the buffers and one Stream2Zmq, driven by the primary thread.
InitSys ==
  /\ BufStart(FALSE)
  /\ PollStart(1)
  /\ RecvStart
  /\ \E x \in Sinks : SysStart(x)

NextSys ==
  \/ SetInfiniteStdout
  \/ Construct
  \/ Reset
  \/ Access
  \/ OrchClose
  \/ \E b \in Buffers : BufferClose(b)
  \/ Deliver

SpecSys == InitSys /\ [][NextSys]_vars

\* ------------------------------------------------------------------ properties
\* The chunks the sink received, without the wakeup sentinel.
SinkChunks == SelectSeq(sink, LAMBDA x : x # Sentinel)

\* stdout.write(c) was called exactly once and has returned.
WriteCompleted(c) ==
  /\ Count(sink, c) = 1
  /\ ~(wpc = "write" /\ witem = c)
  /\ wst[c] # "dwrite"

\* Every chunk whose write() has returned is completely written.
AcceptedWritten == \A c \in Chunks : wst[c] = "returned" => WriteCompleted(c)

\* C1: FIFO order. The sink receives the chunks in the order write() handed
\* them over: whenever the sink has received a chunk, it has received every
\* chunk handed over before it, so what the sink has seen is a prefix of the
\* hand-over order.
C1_FifoOrder == IsPrefix(SinkChunks, handed)

C3_NoLossInShutdownRace ==
  \A c \in Chunks :
    /\ wst[c] # "error"
    /\ (wst[c] = "returned" /\ wpc = "done") => Count(sink, c) = 1

\* C4: idempotent close. A close() called after a close() has returned returns
\* at once (it writes nothing, flushes nothing, calls no cleanup, raises
\* nothing); and when the close() calls came one after another, the sink was
\* flushed once, got at most one sentinel, and the cleanup callback (if
\* supplied) ran exactly once.
C4_IdempotentClose ==
  /\ \A k \in Closers : late[k] => cpc[k] = "skipped"
  /\ ( /\ Cardinality({k \in Closers : cpc[k] # "idle" /\ ~late[k]}) = 1
       /\ \E k \in Closers : CloseReturned(k) )
     => /\ flushes = 1
        /\ Count(sink, Sentinel) <= 1
        /\ cleanups = (IF cleanup THEN 1 ELSE 0)
        /\ \A k \in Closers : cpc[k] # "error"

\* A second close() was called after the first returned, and the cleanup
\* callback has run once.
C4_Witness ==
  \E k \in Closers : late[k] /\ cpc[k] = "skipped" /\ cleanup /\ cleanups = 1

\* C10: order of the close sequence. In every close() that found the buffer
\* open: the closed flag is set only when the chunks written before the call
\* are written; the sentinel is enqueued with the flag set; the sink is
\* flushed only after the worker has exited; and the cleanup callback is
\* called only with the worker exited, the sink flushed and no accepted chunk
\* unwritten.
C10_CloseOrder ==
  [][\A k \in Closers :
       /\ (cpc[k] = "setclosed" /\ cpc'[k] = "put")
            => \A c \in pre[k] : WriteCompleted(c)
       /\ (cpc[k] = "put" /\ cpc'[k] = "join") => closed
       /\ (cpc[k] = "sflush" /\ cpc'[k] = "cleanup") => (closed /\ wpc = "done")
       /\ (cpc[k] = "cleanup" /\ cleanups' = cleanups + 1)
            => (wpc = "done" /\ flushes >= 1 /\ AcceptedWritten)]_vars

\* C5: idle-timeout trigger. A poll() that saw isWaiting() true and an idle
\* time of at least _timeout_s called timeout() and then zmq.poll(), whatever
\* its timeout_s argument.
C5_IdleTimeoutTrigger ==
  (pev # <<>> /\ pwaiting /\ pidle >= cfgTimeout)
    => pev = <<"timeout", "zmq.poll">>

\* poll() was given a timeout_s, the idle time had reached a positive
\* _timeout_s, and timeout() was called before zmq.poll().
C5_Witness ==
  /\ pev = <<"timeout", "zmq.poll">>
  /\ parg # None
  /\ cfgTimeout > 0
  /\ pidle >= cfgTimeout

\* C6: no premature timeout. A poll() that called timeout() saw isWaiting()
\* true and an idle time of at least _timeout_s; and as long as every poll()
\* saw isWaiting() false or a shorter idle time, timeout() was never called.
C6_NoPrematureTimeout ==
  /\ (\E i \in 1..Len(pev) : pev[i] = "timeout")
       => (pwaiting /\ pidle >= cfgTimeout)
  /\ quiet => timeouts = 0

\* poll() was called while waiting, after a positive idle time below
\* _timeout_s, and did not call timeout().
C6_Witness ==
  /\ pev = <<"zmq.poll">>
  /\ pwaiting
  /\ pidle > 0
  /\ pidle < cfgTimeout
  /\ timeouts = 0

\* C7 as stated: when isWaiting() is false, zmq.poll() is handed timeout_s if
\* given and the configured _timeout_s otherwise.
C7_DefaultWhenNotWaiting ==
  (pev # <<>> /\ ~pwaiting)
    => pwait = Some(IF parg = None THEN cfgTimeout ELSE parg[1])

\* C7 amended: when isWaiting() is false, zmq.poll() is handed the timeout_s
\* argument as it came: the number if given, None if not.
C7_WaitWhenNotWaiting ==
  (pev # <<>> /\ ~pwaiting) => pwait = parg

\* poll() was called without timeout_s while isWaiting() was false, and
\* zmq.poll() was handed None.
C7_Witness ==
  pev # <<>> /\ ~pwaiting /\ parg = None /\ pwait = None

\* C8: recvAll drains one endpoint. While f has raised nothing: f was called
\* once per frame received, in receive order (one call may be pending); when
\* recv() raises would-block, recvAll returns; when recv() raises anything
\* else, recvAll raises; in both cases f was called for exactly the frames
\* received before; and recvAll returns only on would-block.
C8_RecvAllDrains ==
  rsrc # "handler" =>
    /\ IsPrefix(handled, rframes)
    /\ rpc # "handler" => handled = rframes
    /\ (rsrc = "recv" /\ rlast = WouldBlock) => rpc = "returned"
    /\ (rsrc = "recv" /\ rlast # WouldBlock) => rpc = "raised"
    /\ rpc = "returned" => (rsrc = "recv" /\ rlast = WouldBlock)

\* The transport yielded two frames and then would-block: f was called with
\* the two, and recvAll returned.
C8_Witness ==
  /\ rpc = "returned"
  /\ rsrc = "recv"
  /\ Len(rframes) = 2
  /\ handled = rframes

\* C9: recvAll masks nothing but recv()'s would-block. An exception raised by
\* f always propagates, and recvAll returns normally only after recv() raised
\* would-block.
C9_OnlyRecvWouldBlockMasked ==
  /\ rsrc = "handler" => rpc = "raised"
  /\ rpc = "returned" => (rsrc = "recv" /\ rlast = WouldBlock)

\* A close() call found the buffer open: it went past line 52.
FoundOpen(k) == cpc[k] \notin {"idle", "skipped"}

C12_FlushBarrier ==
  /\ [](fpc = "returned" => \A c \in fpre : WriteCompleted(c))
  /\ []<>(fpc # "joinq" \/ closed)

\* flush() has returned on an open buffer, called after two write() calls
\* had returned.
C12_Witness ==
  /\ fpc = "returned"
  /\ ~closed
  /\ Cardinality(fpre) >= 2

\* The buffers created so far, and those of them that are open.
Created == {b \in Buffers : bufWraps[b] # None}
OpenBuffers == {b \in Created : ~bufClosed[b]}

\* C13: at most one active Output Buffer. The buffer that is sys.stdout
\* wraps a real sink, never a buffer; at most one buffer is open, and it is
\* the one installed; every buffer created has one worker (nbuf counts both);
\* and no step taken while a buffer is installed creates a buffer.
C13_OneActiveBuffer ==
  /\ [](/\ \A b \in Created : ~IsBuffer(bufWraps[b][1])
        /\ Cardinality(OpenBuffers) <= 1
        /\ \A b \in OpenBuffers : sysStdout = BufRef(b)
        /\ Created = 1..nbuf)
  /\ [][IsBuffer(sysStdout) => (nbuf' = nbuf /\ bufWraps' = bufWraps)]_vars

\* A second buffer is installed, the first having been closed, and a
\* setInfiniteStdout() was called while a buffer was installed.
C13_Witness ==
  /\ skips
  /\ nbuf = 2
  /\ sysStdout = BufRef(2)
  /\ bufClosed[1]

\* C14: install/restore round trip. Every buffer wraps the sink S that was
\* sys.stdout when it was installed, which is the sink the process started
\* with; once the buffer installed last is closed, sys.stdout is S again; and
\* a buffer installed after that is a new, open one wrapping S.
C14_InstallRestore ==
  /\ \A b \in Created : bufWraps[b] = Some(orig)
  /\ (nbuf > 0 /\ bufClosed[nbuf]) => sysStdout = orig
  /\ IsBuffer(sysStdout) => (sysStdout = BufRef(nbuf) /\ ~bufClosed[nbuf])
  /\ ~IsBuffer(sysStdout) => sysStdout = orig

\* Over a sink other than sys.__stdout__, a buffer was installed and closed
\* and a second one is installed.
C14_Witness ==
  /\ orig = SinkRef(2)
  /\ nbuf = 2
  /\ bufClosed[1]
  /\ sysStdout = BufRef(2)
  /\ bufWraps[2] = Some(SinkRef(2))

\* C15 as stated: terminal text always goes through the Output Buffer. Once
\* a Stream2Zmq is constructed, the fdout of its current chain's
\* TerminalLayer enqueues its text on the buffer, and every text that was
\* delivered was enqueued.
C15_TextAlwaysBuffered ==
  chain > 0 =>
    /\ TextPath(fdout, sysStdout, bufClosed) = "queued"
    /\ lastOut # "direct"

\* C15 amended: the same as long as no Output Buffer was closed after the
\* construction.
C15_TextBuffered ==
  (chain > 0 /\ ~closedAfter) =>
    /\ TextPath(fdout, sysStdout, bufClosed) = "queued"
    /\ lastOp = "decode" => lastOut = "queued"

\* After a reset(), with the buffer still open, a text was delivered and
\* enqueued.
C15_Witness ==
  /\ chain >= 2
  /\ ~closedAfter
  /\ lastOp = "decode"
  /\ lastOut = "queued"

\* C16: the cached endpoint is never stale. self._zmq is None or the first
\* layer of the current chain; right after reset() it is None; and a call
\* delegated to self.zmq acts on the endpoint of the current chain.
C16_CacheNeverStale ==
  /\ zmqCache = None \/ zmqCache = Some(chain)
  /\ lastOp = "reset" => zmqCache = None
  /\ lastOp \in {"access", "close"} => deleg = chain

\* After the endpoint was cached, a reset() and another delegated call, the
\* cache holds the endpoint of the second chain.
C16_Witness ==
  /\ chain >= 2
  /\ lastOp = "access"
  /\ zmqCache = Some(chain)
  /\ deleg = chain

\* C17: Stream2Zmq.close() is repeatable. The endpoint of a chain has its
\* close() called at most once, however often Stream2Zmq.close() is called.
C17_EndpointClosedOnce ==
  \A n \in Chains : epCloses[n] <= 1

\* C18 as stated: the worker exits only after it has seen the closed flag
\* set and has taken the wakeup sentinel from the queue: when the worker has
\* exited, the flag is set and the sentinel has been consumed.
C18_ExitAfterSentinel ==
  wpc = "done" => (closed /\ Count(sink, Sentinel) >= 1)

\* C18 amended: the worker exits only after it has seen the closed flag set;
\* a sentinel is consumed only with the flag set; and every sentinel that
\* close() enqueued has been consumed by the worker or is still in the queue
\* (where it stays once the worker has exited).
C18_ExitAfterClosed ==
  /\ wpc = "done" => closed
  /\ Count(sink, Sentinel) >= 1 => closed
  /\ Count(sink, Sentinel) + Count(queue, Sentinel)
       = Cardinality({k \in Closers : cpc[k] \in {"join", "setnone", "sflush", "cleanup", "done"}})

\* The worker has exited and left the sentinel in the queue, after it had
\* written a chunk.
C18_Witness ==
  /\ wpc = "done"
  /\ Count(queue, Sentinel) = 1
  /\ Count(sink, Sentinel) = 0
  /\ Len(sink) >= 1

\* C19: poll() always services the transport, with a bounded wait. A poll()
\* calls zmq.poll() exactly once, after at most one timeout() and nothing
\* else; what it returns is what zmq.poll() returned; and when isWaiting()
\* was true and remaining (the configured timeout less the idle time) was
\* positive, zmq.poll() is handed min(timeout_s, remaining), timeout_s being
\* the configured timeout when not given.
C19_PollServicesTransport ==
  pev # <<>> =>
    /\ pev \in {<<"zmq.poll">>, <<"timeout", "zmq.poll">>}
    /\ ppc = "idle" => (pret # None /\ pret = zres)
    /\ (pwaiting /\ cfgTimeout - pidle > 0)
         => pwait = Some(Min(IF parg = None THEN cfgTimeout ELSE parg[1],
                             cfgTimeout - pidle))

\* A poll() without timeout_s, called while waiting with time remaining
\* below the configured timeout, was handed the remaining time and has
\* returned what zmq.poll() returned, one ready socket.
C19_Witness ==
  /\ ppc = "idle"
  /\ pev = <<"zmq.poll">>
  /\ pwaiting
  /\ parg = None
  /\ pidle > 0
  /\ pwait = Some(cfgTimeout - pidle)
  /\ pret = Some(1)

\* C20: single writer to the real sink. At most one thread is inside
\* stdout.write() at any time (the worker, or a caller writing directly), and
\* while the closed flag is not set no caller is.
C20_SingleWriter ==
  /\ Cardinality({c \in Chunks : wst[c] = "dwrite"})
       + (IF wpc = "write" THEN 1 ELSE 0) <= 1
  /\ ~closed => \A c \in Chunks : wst[c] # "dwrite"

====
